---- MODULE Spec2Model ----
(***************************************************************************)
(* Bulghousing API: the create (POST /api/properties) and search           *)
(* (GET /api/properties) handlers of main.py over the "property"           *)
(* collection, with the Property schema of schemas.py.                     *)
(*                                                                         *)
(* Representation.                                                         *)
(*   - Text is a sequence of one-character strings.                        *)
(*   - An optional or omittable value is a sequence of length <= 1:        *)
(*     <<>> is None / not supplied, <<x>> is the value x.                  *)
(*   - Money is an integer number of thousandths of a currency unit        *)
(*     (50000 EUR is 50000000), so inputs finer than a cent exist.         *)
(*     Python's float arithmetic is modelled by exact decimal arithmetic;  *)
(*     round(x, 2) of a value exactly half-way between two cents may be    *)
(*     either neighbour (the binary double of a decimal tie lies on one    *)
(*     side or the other), every other value rounds to the nearest cent.   *)
(*   - Areas (size_sqm) are whole square metres.                           *)
(***************************************************************************)
EXTENDS Integers, Sequences, FiniteSets

VARIABLES store, req, resp, storeCalls, conv

vars == <<store, req, resp, storeCalls, conv>>

---------------------------------------------------------------------------
(* Bounds of the model *)

\* most listings the store holds in the model
MaxDocs == 2

\* SpecConv converts every price from 1 to MaxConvPrice thousandths
MaxConvPrice == 130

---------------------------------------------------------------------------
(* Optional values *)

None == <<>>

Some(x) == <<x>>

IsNone(o) == Len(o) = 0

Val(o) == o[1]

---------------------------------------------------------------------------
(* schemas.py *)

BULGARIAN_REGIONS ==
    { "Blagoevgrad", "Burgas", "Dobrich", "Gabrovo", "Haskovo", "Kardzhali",
      "Kyustendil", "Lovech", "Montana", "Pazardzhik", "Pernik", "Pleven",
      "Plovdiv", "Razgrad", "Ruse", "Shumen", "Silistra", "Sliven", "Smolyan",
      "Sofia City", "Sofia Province", "Stara Zagora", "Targovishte", "Varna",
      "Veliko Tarnovo", "Vidin", "Vratsa", "Yambol" }

CURRENCIES == { "EUR", "BGN" }

\* Property with ge=0 where the schema says gt=0
PropertyErrors_ge(payload) ==
    { f \in {"title"} : IsNone(payload.title) }
    \cup { f \in {"region"} :
             IsNone(payload.region) \/ Val(payload.region) \notin BULGARIAN_REGIONS }
    \cup { f \in {"size_sqm"} :
             IsNone(payload.size_sqm) \/ ~(Val(payload.size_sqm) >= 0) }
    \cup { f \in {"currency"} :
             ~IsNone(payload.currency) /\ Val(payload.currency) \notin CURRENCIES }
    \cup { f \in {"price_value"} :
             IsNone(payload.price_value) \/ ~(Val(payload.price_value) >= 0) }

\* The fields of a create payload that fail the Property schema:
\*   title: str = Field(...)                      required, any string
\*   region: Literal[BULGARIAN_REGIONS] = Field(...)
\*   size_sqm: float = Field(..., gt=0)
\*   currency: Literal["EUR","BGN"] = Field("EUR")  optional
\*   price_value: float = Field(..., gt=0)
\*   address, description, images: Optional, default None
PropertyErrors(payload) ==
    { f \in {"title"} : IsNone(payload.title) }
    \cup { f \in {"region"} :
             IsNone(payload.region) \/ Val(payload.region) \notin BULGARIAN_REGIONS }
    \cup { f \in {"size_sqm"} :
             IsNone(payload.size_sqm) \/ ~(Val(payload.size_sqm) > 0) }
    \cup { f \in {"currency"} :
             ~IsNone(payload.currency) /\ Val(payload.currency) \notin CURRENCIES }
    \cup { f \in {"price_value"} :
             IsNone(payload.price_value) \/ ~(Val(payload.price_value) > 0) }

\* payload.model_dump(): the validated record, defaults filled in
model_dump(payload) ==
    [ title       |-> Val(payload.title),
      region      |-> Val(payload.region),
      address     |-> payload.address,
      description |-> payload.description,
      size_sqm    |-> Val(payload.size_sqm),
      currency    |-> IF IsNone(payload.currency) THEN "EUR" ELSE Val(payload.currency),
      price_value |-> Val(payload.price_value),
      images      |-> None ]

---------------------------------------------------------------------------
(* Exact arithmetic for price_value * EUR_TO_BGN and price_value /         *)
(* EUR_TO_BGN.  EUR_TO_BGN = 1.95583 = RATE_NUM / RATE_DEN.                *)

RATE_NUM == 195583

RATE_DEN == 100000

\* a * b = q * m + r with 0 <= r < m, by doubling, so that no intermediate
\* value leaves the 32-bit integers (a, b >= 0, 0 < m < 2^29)
RECURSIVE MulDiv(_, _, _)
MulDiv(a, b, m) ==
    IF a = 0 THEN [q |-> 0, r |-> 0]
    ELSE LET h == MulDiv(a \div 2, b, m)
             d == 2 * h.r
             s == (d % m) + (IF a % 2 = 1 THEN b % m ELSE 0)
         IN  [ q |-> 2 * h.q + (d \div m)
                      + (IF a % 2 = 1 THEN b \div m ELSE 0) + (s \div m),
               r |-> s % m ]

\* A non-negative amount as whole cents q plus the fraction r/m of a cent.
\* price_value itself (thousandths): q + r/10 cents
Exact(v) == [q |-> v \div 10, r |-> v % 10, m |-> 10]

\* price_value * EUR_TO_BGN, in cents: v * 195583 / (100000 * 10)
Times(v) ==
    LET x == MulDiv(v, RATE_NUM, RATE_DEN * 10)
    IN  [q |-> x.q, r |-> x.r, m |-> RATE_DEN * 10]

\* price_value / EUR_TO_BGN, in cents: v * 100000 / (195583 * 10)
Over(v) ==
    LET x == MulDiv(v, RATE_DEN \div 10, RATE_NUM)
    IN  [q |-> x.q, r |-> x.r, m |-> RATE_NUM]

\* round(x, 2): the possible results, in thousandths
Round2(x) ==
    IF 2 * x.r < x.m THEN { 10 * x.q }
    ELSE IF 2 * x.r > x.m THEN { 10 * (x.q + 1) }
    ELSE { 10 * x.q, 10 * (x.q + 1) }

---------------------------------------------------------------------------
(* main.py: create_property *)

\* lines 71-78 with the two branches exchanged
NormalizePrices_swapped(cur, price_value) ==
    IF cur = "EUR"
    THEN { [price_eur |-> e, price_bgn |-> b] :
             e \in Round2(Over(price_value)), b \in Round2(Exact(price_value)) }
    ELSE { [price_eur |-> e, price_bgn |-> b] :
             e \in Round2(Exact(price_value)), b \in Round2(Times(price_value)) }

\* lines 71-78 with the BGN branch multiplying where the code divides
NormalizePrices_times(cur, price_value) ==
    IF cur = "EUR"
    THEN { [price_eur |-> e, price_bgn |-> b] :
             e \in Round2(Exact(price_value)), b \in Round2(Times(price_value)) }
    ELSE { [price_eur |-> e, price_bgn |-> b] :
             e \in Round2(Times(price_value)), b \in Round2(Exact(price_value)) }

\* lines 71-78: the (price_eur, price_bgn) pairs the handler can compute
\*   if cur == "EUR": price_eur = price_value; price_bgn = price_value * EUR_TO_BGN
\*   else:            price_bgn = price_value; price_eur = price_value / EUR_TO_BGN
\*   data["price_eur"] = round(price_eur, 2); data["price_bgn"] = round(price_bgn, 2)
NormalizePrices(cur, price_value) ==
    IF cur = "EUR"
    THEN { [price_eur |-> e, price_bgn |-> b] :
             e \in Round2(Exact(price_value)), b \in Round2(Times(price_value)) }
    ELSE { [price_eur |-> e, price_bgn |-> b] :
             e \in Round2(Over(price_value)), b \in Round2(Exact(price_value)) }

\* database.create_document: insert-one; the store assigns the identity
create_document(coll, data) ==
    LET id == Len(coll) + 1
    IN  [ coll |-> Append(coll, [k \in DOMAIN data \cup {"_id"} |->
                                   IF k = "_id" THEN id ELSE data[k]]),
          id   |-> id ]

Rejected(errors) ==
    [ kind |-> "rejected", status |-> 422, errors |-> errors,
      id |-> None, results |-> <<>>, total |-> 0 ]

Created(id) ==
    [ kind |-> "created", status |-> 200, errors |-> {},
      id |-> Some(id), results |-> <<>>, total |-> 0 ]

\* the record handed to create_document
StoredData(data, pr) ==
    [k \in DOMAIN data \cup {"price_eur", "price_bgn"} |->
       IF k = "price_eur" THEN pr.price_eur
       ELSE IF k = "price_bgn" THEN pr.price_bgn
       ELSE data[k]]

\* create_property with the insert issued a second time
create_property_twice(payload) ==
    /\ req' = [op |-> "create", payload |-> payload]
    /\ conv' = conv
    /\ IF PropertyErrors(payload) # {}
       THEN /\ resp' = Rejected(PropertyErrors(payload))
            /\ store' = store
            /\ storeCalls' = 0
       ELSE /\ Len(store) + 2 <= MaxDocs + 1
            /\ LET data == model_dump(payload)
               IN  \E pr \in NormalizePrices(data.currency, data.price_value) :
                     LET first  == create_document(store, StoredData(data, pr))
                         second == create_document(first.coll, StoredData(data, pr))
                     IN  /\ store' = second.coll
                         /\ resp' = Created(second.id)
                         /\ storeCalls' = 2

\* POST /api/properties (lines 65-81).  A payload that fails the schema never
\* reaches the handler body: FastAPI answers 422 with the failing fields.
create_property(payload) ==
    /\ req' = [op |-> "create", payload |-> payload]
    /\ conv' = conv
    /\ IF PropertyErrors(payload) # {}
       THEN /\ resp' = Rejected(PropertyErrors(payload))
            /\ store' = store
            /\ storeCalls' = 0
       ELSE /\ Len(store) < MaxDocs
            /\ LET data == model_dump(payload)
               IN  \E pr \in NormalizePrices(data.currency, data.price_value) :
                     LET ins == create_document(store, StoredData(data, pr))
                     IN  /\ store' = ins.coll
                         /\ resp' = Created(ins.id)
                         /\ storeCalls' = 1

---------------------------------------------------------------------------
(* main.py: search_properties *)

Min(a, b) == IF a <= b THEN a ELSE b

DEFAULT_LIMIT == 50

MIN_LIMIT == 1

MAX_LIMIT == 200

EffLimit(params) == IF IsNone(params.limit) THEN DEFAULT_LIMIT ELSE Val(params.limit)

EffCurrency(params) ==
    IF IsNone(params.price_currency) THEN "EUR" ELSE Val(params.price_currency)

\* the Query(...) constraints with the upper bound of limit left out
SearchErrors_noMax(params) ==
    { f \in {"region"} :
        ~IsNone(params.region) /\ Val(params.region) \notin BULGARIAN_REGIONS }
    \cup { f \in {"min_price"} : ~IsNone(params.min_price) /\ ~(Val(params.min_price) >= 0) }
    \cup { f \in {"max_price"} : ~IsNone(params.max_price) /\ ~(Val(params.max_price) >= 0) }
    \cup { f \in {"price_currency"} :
             ~IsNone(params.price_currency) /\ Val(params.price_currency) \notin CURRENCIES }
    \cup { f \in {"min_sqm"} : ~IsNone(params.min_sqm) /\ ~(Val(params.min_sqm) >= 0) }
    \cup { f \in {"max_sqm"} : ~IsNone(params.max_sqm) /\ ~(Val(params.max_sqm) >= 0) }
    \cup { f \in {"limit"} : ~(EffLimit(params) >= MIN_LIMIT) }

\* The query parameters that fail their Query(...) constraints (lines 85-92):
\*   region: Optional[Literal[BULGARIAN_REGIONS]]; min_price, max_price,
\*   min_sqm, max_sqm: Optional[float], ge=0; price_currency:
\*   Optional[Literal["EUR","BGN"]] = "EUR"; limit: int = Query(50, ge=1, le=200)
SearchErrors(params) ==
    { f \in {"region"} :
        ~IsNone(params.region) /\ Val(params.region) \notin BULGARIAN_REGIONS }
    \cup { f \in {"min_price"} : ~IsNone(params.min_price) /\ ~(Val(params.min_price) >= 0) }
    \cup { f \in {"max_price"} : ~IsNone(params.max_price) /\ ~(Val(params.max_price) >= 0) }
    \cup { f \in {"price_currency"} :
             ~IsNone(params.price_currency) /\ Val(params.price_currency) \notin CURRENCIES }
    \cup { f \in {"min_sqm"} : ~IsNone(params.min_sqm) /\ ~(Val(params.min_sqm) >= 0) }
    \cup { f \in {"max_sqm"} : ~IsNone(params.max_sqm) /\ ~(Val(params.max_sqm) >= 0) }
    \cup { f \in {"limit"} :
             ~(EffLimit(params) >= MIN_LIMIT /\ EffLimit(params) <= MAX_LIMIT) }

\* One entry of mongo_filter.  op is "regex" ({"$or": [{f: {"$regex": q,
\* "$options": "i"}} for f in title, description, address]}), "eq"
\* ({key: value}) or "range" ({key: {"$gte": .., "$lte": ..}}).
Clause(key, op, pattern, value, gte, lte) ==
    [key |-> key, op |-> op, pattern |-> pattern, value |-> value,
     gte |-> gte, lte |-> lte]

TEXT_FIELDS == {"title", "description", "address"}

\* lines 94-125 filtering on price_eur whatever price_currency says
BuildFilter_eurOnly(params) ==
    (IF ~IsNone(params.q) /\ Val(params.q) # <<>>
        THEN { Clause("$or", "regex", Val(params.q), "", None, None) } ELSE {})
    \cup (IF ~IsNone(params.region)
        THEN { Clause("region", "eq", <<>>, Val(params.region), None, None) } ELSE {})
    \cup (IF ~IsNone(params.min_price) \/ ~IsNone(params.max_price)
        THEN { Clause("price_eur", "range", <<>>, "", params.min_price, params.max_price) } ELSE {})
    \cup (IF ~IsNone(params.min_sqm) \/ ~IsNone(params.max_sqm)
        THEN { Clause("size_sqm", "range", <<>>, "", params.min_sqm, params.max_sqm) } ELSE {})

\* lines 94-125: mongo_filter, the set of its entries
\*   if q: the $or of three case-insensitive $regex entries
\*   if region: region equality
\*   price_field = "price_eur" if price_currency == "EUR" else "price_bgn";
\*   the range entry exists when min_price or max_price is not None
\*   size_sqm likewise with min_sqm, max_sqm
BuildFilter(params) ==
    (IF ~IsNone(params.q) /\ Val(params.q) # <<>>
        THEN { Clause("$or", "regex", Val(params.q), "", None, None) } ELSE {})
    \cup (IF ~IsNone(params.region)
        THEN { Clause("region", "eq", <<>>, Val(params.region), None, None) } ELSE {})
    \cup (IF ~IsNone(params.min_price) \/ ~IsNone(params.max_price)
        THEN { Clause(IF EffCurrency(params) = "EUR" THEN "price_eur" ELSE "price_bgn",
                  "range", <<>>, "", params.min_price, params.max_price) } ELSE {})
    \cup (IF ~IsNone(params.min_sqm) \/ ~IsNone(params.max_sqm)
        THEN { Clause("size_sqm", "range", <<>>, "", params.min_sqm, params.max_sqm) } ELSE {})

\* "$options": "i"
Lower(c) == IF c = "A" THEN "a" ELSE IF c = "B" THEN "b" ELSE IF c = "C" THEN "c" ELSE c

\* "$regex": pattern, unanchored, over the characters of the model: "." matches
\* any one character, every other character matches itself, letters in either case
RegexSearch(pattern, text) ==
    \E start \in 1..(Len(text) - Len(pattern) + 1) :
       \A i \in 1..Len(pattern) :
          \/ pattern[i] = "."
          \/ Lower(pattern[i]) = Lower(text[start + i - 1])

\* the text of a field of a stored document, None when the field is null
FieldText(doc, f) == IF f = "title" THEN Some(doc.title) ELSE doc[f]

\* whether a stored document satisfies one entry of the filter
Satisfies(doc, c) ==
    CASE c.op = "regex" ->
           \E f \in TEXT_FIELDS :
              /\ ~IsNone(FieldText(doc, f))
              /\ RegexSearch(c.pattern, Val(FieldText(doc, f)))
      [] c.op = "eq" -> doc[c.key] = c.value
      [] OTHER ->
           /\ IsNone(c.gte) \/ doc[c.key] >= Val(c.gte)
           /\ IsNone(c.lte) \/ doc[c.key] <= Val(c.lte)

\* database.get_documents: find(filter).limit(limit), in insertion order
get_documents(coll, mongo_filter, limit) ==
    LET Hit(doc) == \A c \in mongo_filter : Satisfies(doc, c)
        hits == SelectSeq(coll, Hit)
    IN  SubSeq(hits, 1, Min(limit, Len(hits)))

\* shape that returns the document as it is
shape_keep(doc) == doc

\* lines 129-132: d = {k: v for k, v in doc.items() if k != "_id"}
shape(doc) == [k \in DOMAIN doc \ {"_id"} |-> doc[k]]

Results(results) ==
    [ kind |-> "results", status |-> 200, errors |-> {},
      id |-> None, results |-> results, total |-> Len(results) ]

\* GET /api/properties (lines 83-135)
search_properties(params) ==
    /\ req' = [op |-> "search", params |-> params]
    /\ conv' = conv
    /\ store' = store
    /\ IF SearchErrors(params) # {}
       THEN /\ resp' = Rejected(SearchErrors(params))
            /\ storeCalls' = 0
       ELSE LET docs == get_documents(store, BuildFilter(params), EffLimit(params))
                results == [i \in 1..Len(docs) |-> shape(docs[i])]
            IN  /\ resp' = Results(results)
                /\ storeCalls' = 1

---------------------------------------------------------------------------
(* Requests of the model *)

Payload(title, region, address, description, size_sqm, currency, price_value) ==
    [ title |-> title, region |-> region, address |-> address,
      description |-> description, size_sqm |-> size_sqm, currency |-> currency,
      price_value |-> price_value ]

\* 50000 in thousandths
ExamplePrice == 50000 * 1000

\* valid create payloads: title "aB" with currency omitted, EUR or BGN and
\* price 0.001 or 50000, and one with the empty title
ValidPayloads ==
    { Payload(Some(<<"a", "B">>), Some("Plovdiv"), None, None, Some(65), c, Some(p)) :
        c \in { None, Some("EUR"), Some("BGN") },
        p \in { 1, ExamplePrice } }
    \cup { Payload(Some(<<>>), Some("Plovdiv"), None, None,
                   Some(65), Some("EUR"), Some(ExamplePrice)) }

\* a valid payload with one field left out or given a value the schema refuses
FaultyPayloads ==
    UNION { { [p EXCEPT !.title = None],
              [p EXCEPT !.region = None],
              [p EXCEPT !.region = Some("Atlantis")],
              [p EXCEPT !.size_sqm = None],
              [p EXCEPT !.size_sqm = Some(0)],
              [p EXCEPT !.size_sqm = Some(-65)],
              [p EXCEPT !.currency = Some("USD")],
              [p EXCEPT !.price_value = None],
              [p EXCEPT !.price_value = Some(0)],
              [p EXCEPT !.price_value = Some(-ExamplePrice)],
              [p EXCEPT !.title = None, !.price_value = Some(0)] } :
            p \in ValidPayloads }

CreatePayloads == ValidPayloads \cup FaultyPayloads

Params(q, region, min_price, max_price, price_currency, min_sqm, max_sqm, limit) ==
    [ q |-> q, region |-> region, min_price |-> min_price, max_price |-> max_price,
      price_currency |-> price_currency, min_sqm |-> min_sqm, max_sqm |-> max_sqm,
      limit |-> limit ]

\* the searches of Spec: by region, with and without limit, limit in and out of range
BasicSearches ==
    { Params(None, r, None, None, None, None, None, l) :
        r \in { None, Some("Plovdiv") },
        l \in { None, Some(1), Some(0) } }

\* the listings of SpecSearch
\*   title   address  description  region   sqm  price
\*   "aB"    -        -            Plovdiv   65   50000 EUR  (97791.50 BGN)
\*   "c"     "Ab"     -            Plovdiv  120  100000 EUR  (195583.00 BGN)
\*   "c."    -        -            Varna    120  150000 BGN  (76693.78 EUR)
\*   "c"     -        "b"          Varna     65   50000 BGN  (25564.59 EUR)
SeedPayloads ==
    { Payload(Some(<<"a", "B">>), Some("Plovdiv"), None, None,
              Some(65), Some("EUR"), Some(ExamplePrice)),
      Payload(Some(<<"c">>), Some("Plovdiv"), Some(<<"A", "b">>), None,
              Some(120), None, Some(2 * ExamplePrice)),
      Payload(Some(<<"c", ".">>), Some("Varna"), None, None,
              Some(120), Some("BGN"), Some(3 * ExamplePrice)),
      Payload(Some(<<"c">>), Some("Varna"), None, Some(<<"b">>),
              Some(65), Some("BGN"), Some(ExamplePrice)) }

\* free text, region and limit; q = "" is supplied and empty
TextSearches ==
    { Params(q, r, None, None, None, None, None, l) :
        q \in { None, Some(<<"b">>), Some(<<".">>) },
        r \in { None, Some("Plovdiv"), Some("Varna"), Some("Atlantis") },
        l \in { None, Some(0), Some(1), Some(MAX_LIMIT), Some(MAX_LIMIT + 1) } }
    \cup { Params(Some(<<>>), None, None, None, None, None, None, l) :
             l \in { None, Some(1) } }

\* price and size ranges: 100000 <= price <= 200000, 120 <= sqm, sqm <= 65
RangeSearches ==
    { Params(None, None, lo, hi, c, smin, smax, l) :
        lo \in { None, Some(2 * ExamplePrice) },
        hi \in { None, Some(4 * ExamplePrice) },
        c \in { None, Some("BGN") },
        smin \in { None, Some(120) },
        smax \in { None, Some(65) },
        l \in { None, Some(1) } }

\* free text, region, price range and size together
CombinedSearches ==
    { Params(q, Some("Plovdiv"), Some(2 * ExamplePrice), Some(4 * ExamplePrice),
             c, smin, None, l) :
        q \in { None, Some(<<"b">>) },
        c \in { None, Some("BGN") },
        smin \in { None, Some(120) },
        l \in { None, Some(1) } }

SearchRequests == TextSearches \cup RangeSearches \cup CombinedSearches

---------------------------------------------------------------------------
(* Specifications *)

Idle == [stage |-> "idle", price_value |-> 0, bgn |-> 0, eur |-> 0]

NoRequest == [op |-> "none"]

NoResponse ==
    [ kind |-> "none", status |-> 0, errors |-> {},
      id |-> None, results |-> <<>>, total |-> 0 ]

\* the collection is empty and no request has been served
Init ==
    /\ store = <<>>
    /\ req = NoRequest
    /\ resp = NoResponse
    /\ storeCalls = 0
    /\ conv = Idle

Create == \E payload \in CreatePayloads : create_property(payload)

Search == \E params \in BasicSearches : search_properties(params)

Next == Create \/ Search

\* every create payload, a few searches
Spec == Init /\ [][Next]_vars

SeedCreate == \E payload \in SeedPayloads : create_property(payload)

FullSearch == \E params \in SearchRequests : search_properties(params)

NextSearch == SeedCreate \/ FullSearch

\* a few listings, every search
SpecSearch == Init /\ [][NextSearch]_vars

\* 0.001 .. MaxConvPrice/1000, amounts spread up to about 1300, 500 (whose
\* price_bgn 977.915 is half-way between two cents), 50000 and 50000.001
ConvPrices ==
    (1..MaxConvPrice)
    \cup { 9973 * k : k \in 1..MaxConvPrice }
    \cup { ExamplePrice \div 100, ExamplePrice, ExamplePrice + 1 }

\* The conversions of create_property (lines 71-78) as pure functions:
\* a price in EUR, its price_bgn, and the price_eur of that amount in BGN.
InitConv ==
    /\ store = <<>>
    /\ req = NoRequest
    /\ resp = NoResponse
    /\ storeCalls = 0
    /\ conv \in { [stage |-> "input", price_value |-> v, bgn |-> 0, eur |-> 0] :
                    v \in ConvPrices }

EurToBgn ==
    /\ conv.stage = "input"
    /\ \E pr \in NormalizePrices("EUR", conv.price_value) :
          conv' = [conv EXCEPT !.stage = "bgn", !.bgn = pr.price_bgn]
    /\ UNCHANGED <<store, req, resp, storeCalls>>

BgnToEur ==
    /\ conv.stage = "bgn"
    /\ \E pr \in NormalizePrices("BGN", conv.bgn) :
          conv' = [conv EXCEPT !.stage = "eur", !.eur = pr.price_eur]
    /\ UNCHANGED <<store, req, resp, storeCalls>>

NextConv == EurToBgn \/ BgnToEur

SpecConv == InitConv /\ [][NextConv]_vars

---------------------------------------------------------------------------
(* Claims *)

Abs(x) == IF x < 0 THEN -x ELSE x

IsCreate == req.op = "create"

IsSearch == req.op = "search"

Accepted == IsSearch /\ resp.kind = "results"

ClientError(r) == r.kind = "rejected" /\ r.status >= 400 /\ r.status <= 499

\* a create payload that fails validation, in the words of the claim
FailsValidation(p) ==
    \/ IsNone(p.title)
    \/ IsNone(p.region)
    \/ IsNone(p.size_sqm)
    \/ IsNone(p.price_value)
    \/ Val(p.region) \notin BULGARIAN_REGIONS
    \/ Val(p.size_sqm) <= 0
    \/ Val(p.price_value) <= 0
    \/ (~IsNone(p.currency) /\ Val(p.currency) \notin {"EUR", "BGN"})

\* C1: a create request whose payload fails validation (a required field
\* missing, region outside the 28 regions, size_sqm <= 0, price_value <= 0,
\* currency not EUR or BGN) is answered with a client error, issues no store
\* call and leaves the stored listings as they were.
C1_InvalidCreateRejected ==
    [][ (req'.op = "create" /\ FailsValidation(req'.payload))
          => /\ ClientError(resp')
             /\ storeCalls' = 0
             /\ store' = store ]_vars

\* an invalid create was rejected while a listing was stored
C1_Witness ==
    /\ IsCreate
    /\ FailsValidation(req.payload)
    /\ resp.kind = "rejected"
    /\ Len(store) >= 1

\* C2: every stored record carries, for currency EUR, price_eur =
\* round2(price_value) and price_bgn = round2(price_value * 1.95583), and
\* otherwise price_bgn = round2(price_value) and price_eur =
\* round2(price_value / 1.95583); the record is the one of the request; 50000
\* EUR is stored as price_eur 50000.00 and price_bgn 97791.50.
C2_StoredPrices ==
    /\ \A i \in 1..Len(store) :
          LET d == store[i]
          IN  /\ d.currency = "EUR" =>
                    /\ d.price_eur \in Round2(Exact(d.price_value))
                    /\ d.price_bgn \in Round2(Times(d.price_value))
              /\ d.currency # "EUR" =>
                    /\ d.price_bgn \in Round2(Exact(d.price_value))
                    /\ d.price_eur \in Round2(Over(d.price_value))
              /\ (d.currency = "EUR" /\ d.price_value = 50000000) =>
                    (d.price_eur = 50000000 /\ d.price_bgn = 97791500)
    /\ (IsCreate /\ resp.kind = "created") =>
          LET d == store[Len(store)]
          IN  /\ d.price_value = Val(req.payload.price_value)
              /\ d.currency = (IF IsNone(req.payload.currency) THEN "EUR"
                               ELSE Val(req.payload.currency))

\* 50000 EUR and an amount in BGN are both stored
C2_Witness ==
    /\ IsCreate
    /\ resp.kind = "created"
    /\ \E i \in 1..Len(store) :
          /\ store[i].currency = "EUR"
          /\ store[i].price_value = 50000000
          /\ store[i].price_bgn = 97791500
    /\ \E j \in 1..Len(store) :
          /\ store[j].currency = "BGN"
          /\ store[j].price_eur # store[j].price_value

\* C3: every stored listing has price_eur > 0 and price_bgn > 0.
C3_StoredPricesPositive ==
    \A i \in 1..Len(store) : store[i].price_eur > 0 /\ store[i].price_bgn > 0

ComparedPrice(d, p) ==
    IF IsNone(p.price_currency) \/ Val(p.price_currency) = "EUR"
    THEN d.price_eur ELSE d.price_bgn

\* a stored listing satisfies the region, price and size clauses supplied
MeetsClauses(d, p) ==
    /\ IsNone(p.region) \/ d.region = Val(p.region)
    /\ IsNone(p.min_price) \/ Val(p.min_price) <= ComparedPrice(d, p)
    /\ IsNone(p.max_price) \/ ComparedPrice(d, p) <= Val(p.max_price)
    /\ IsNone(p.min_sqm) \/ Val(p.min_sqm) <= d.size_sqm
    /\ IsNone(p.max_sqm) \/ d.size_sqm <= Val(p.max_sqm)

Matching(p) == { j \in 1..Len(store) : MeetsClauses(store[j], p) }

\* a returned record is this stored listing
SameListing(r, d) == \A k \in DOMAIN r : k \in DOMAIN d /\ d[k] = r[k]

NoText(p) == IsNone(p.q) \/ Val(p.q) = <<>>

LimitOf(p) == IF IsNone(p.limit) THEN 50 ELSE Val(p.limit)

\* C5: the records an accepted search returns are different stored listings
\* that each satisfy every supplied region, price and size clause (price_eur
\* compared unless price_currency is BGN, bounds inclusive), and, q not
\* supplied, there are min(limit, number of such listings) of them; with q
\* there are no more than that.
C5_SearchSelects ==
    Accepted =>
       LET p == req.params
           n == Len(resp.results)
       IN  /\ \E f \in [1..n -> 1..Len(store)] :
                 /\ \A a, b \in 1..n : a # b => f[a] # f[b]
                 /\ \A i \in 1..n :
                       /\ SameListing(resp.results[i], store[f[i]])
                       /\ f[i] \in Matching(p)
           /\ NoText(p) => n = Min(LimitOf(p), Cardinality(Matching(p)))
           /\ n <= Min(LimitOf(p), Cardinality(Matching(p)))

\* a BGN price range with both bounds and limit 1 returned one of two matches,
\* while a third listing is outside the range
C5_Witness ==
    /\ Accepted
    /\ req.params.price_currency = Some("BGN")
    /\ ~IsNone(req.params.min_price)
    /\ ~IsNone(req.params.max_price)
    /\ req.params.limit = Some(1)
    /\ Len(resp.results) = 1
    /\ Cardinality(Matching(req.params)) = 2

\* q occurs in text as a literal substring, letters in either case
ContainsLiteral(q, text) ==
    \E start \in 1..(Len(text) - Len(q) + 1) :
       \A i \in 1..Len(q) : Lower(q[i]) = Lower(text[start + i - 1])

\* C6: with a non-empty q, every returned record contains q as a literal
\* case-insensitive substring of its title, description or address.
C6_LiteralSubstring ==
    (Accepted /\ ~NoText(req.params)) =>
       \A i \in 1..Len(resp.results) :
          LET r == resp.results[i]
          IN  \/ ContainsLiteral(Val(req.params.q), r.title)
              \/ ~IsNone(r.description)
                   /\ ContainsLiteral(Val(req.params.q), Val(r.description))
              \/ ~IsNone(r.address)
                   /\ ContainsLiteral(Val(req.params.q), Val(r.address))

\* the listings the store query of a search selects
Selected(p) ==
    { j \in 1..Len(store) : \A c \in BuildFilter(p) : Satisfies(store[j], c) }

C8_ShapedResults ==
    Accepted =>
       /\ Len(resp.results) <= LimitOf(req.params)
       /\ \A i \in 1..Len(resp.results) : "_id" \notin DOMAIN resp.results[i]
       /\ resp.total = Len(resp.results)

\* total is 1 where two stored listings match
C8_Witness ==
    /\ Accepted
    /\ req.params.limit = Some(1)
    /\ resp.total = 1
    /\ Cardinality(Selected(req.params)) = 2
    /\ \A j \in 1..Len(store) : "_id" \in DOMAIN store[j]

\* C9: no request changes or removes a stored listing; a search leaves the
\* store as it is; a successful create adds exactly one listing; a request
\* issues at most one store call.
C9_StoreOnlyGrows ==
    [][ /\ Len(store') >= Len(store)
        /\ SubSeq(store', 1, Len(store)) = store
        /\ req'.op = "search" => store' = store
        /\ resp'.kind = "created" => Len(store') = Len(store) + 1
        /\ storeCalls' <= 1 ]_vars

\* two listings are stored, the second was just created
C9_Witness ==
    /\ Len(store) = 2
    /\ IsCreate
    /\ resp.kind = "created"
    /\ storeCalls = 1

\* C10: every stored listing has a non-empty title.
C10_StoredTitlesNonEmpty ==
    \A i \in 1..Len(store) : store[i].title # <<>>

====
